---- MODULE Spec2Model ----
(***************************************************************************)
(* uf2deploy: ELF -> physical image (.bin) -> UF2 blocks (.uf2) -> copy to *)
(* a bootloader volume.  The module models main()'s `deploy` subcommand:   *)
(* uf2::elf2uf2 (base-address resolution, elf2bin, encoding, writes) and   *)
(* deploy::deploy_uf2 (the bounded resolve/copy retry loop).               *)
(*                                                                         *)
(* Integer widths are scaled down: a u32 ranges over 0..U32Max, a u64 (and *)
(* usize, on a 64-bit host) over 0..U64Max, twice as many bits, and one    *)
(* UF2 payload holds ChunkSize bytes.  Byte offsets are 0-based as in the  *)
(* source; sequences are 1-based, so byte o of a buffer b is b[o + 1].     *)
(***************************************************************************)
EXTENDS Integers, Sequences, FiniteSets, TLC

\* ------------------------------------------------------------- bounds
\* U32Max stands for u32::MAX; the others bound the inputs: program headers
\* per ELF, bytes per file, deploy_retry_count, disks per enumeration.
U32Max == 3
MaxSegs == 2
MaxFileLen == 3
MaxRetry == 3
MaxDisks == 2

\* u64::MAX: a u64 has twice the bits of a u32, so U32Max + 1 divides
\* U64Max + 1 and `as u32` (the low half of the bits) maps U64Max to U32Max.
U64Max == (U32Max + 1) * (U32Max + 1) - 1
\* Vec capacity limit (isize::MAX bytes) of vec![0u8; output_size].
IsizeMax == U64Max \div 2
\* Bytes of image carried by one UF2 block (256 in the format, scaled down).
ChunkSize == 2

None == <<>>
Some(v) == <<v>>

\* ------------------------------------------------------ integer helpers
saturating_add(a, b) == IF a + b > U64Max THEN U64Max ELSE a + b
checked_add(a, b) == IF a + b > U64Max THEN None ELSE Some(a + b)
\* Option::is_none_or(|end| end > limit)
is_none_or_gt(opt, limit) == opt = None \/ opt[1] > limit
as_u32(v) == v % (U32Max + 1)
min(a, b) == IF a < b THEN a ELSE b
max(a, b) == IF a > b THEN a ELSE b

\* ------------------------------------------------------------ the ELF
\* A program header as goblin exposes it.
ProgramHeader(t, off, sz, pa, va) ==
    [p_type |-> t, p_offset |-> off, p_filesz |-> sz, p_paddr |-> pa, p_vaddr |-> va]

\* Object::parse(&elf_data): Ok(Object::Elf), Ok(other object) or Err.
ObjectParse(file) ==
    CASE file.kind = "elf" -> "Elf"
      [] file.kind = "other_object" -> "NotElf"
      [] OTHER -> "Err"

\* Elf::parse(&buffer): only an ELF parses.
ElfParse(file) == file.kind = "elf"

\* File::open(path)? and read_to_end(..)?: Ok unless the path cannot be read
\* (a directory, a file without read permission).
ReadToEnd(file) == file.kind # "unreadable"

\* The canonical paths elf_path can be: a file, the directory it is in, the
\* root directory.
ElfPath == "/work/fw.elf"
WorkDir == "/work"
RootDir == "/"

\* Path::parent(): None for the root.
Parent(path) ==
    CASE path = RootDir -> None
      [] path = WorkDir -> Some(RootDir)
      [] OTHER -> Some(WorkDir)

\* Path::file_stem(): None when the path has no file name (the root, or a
\* path ending in ".."), the name without its extension otherwise.
FileStem(path) ==
    CASE path = RootDir -> None
      [] path = "/work/.." -> None
      [] path = WorkDir -> Some("work")
      [] OTHER -> Some("fw")

\* Mutant: the filter forgets the file size.
IsLoadable_AnySize(ph) == ph.p_type = "PT_LOAD"

\* .filter(|phdr| phdr.p_type == PT_LOAD && phdr.p_filesz > 0)
IsLoadable(ph) == ph.p_type = "PT_LOAD" /\ ph.p_filesz > 0

LoadableSegments(phdrs) == SelectSeq(phdrs, IsLoadable)

\* .filter(|ph| ph.p_type == PT_LOAD) of get_base_addr_of_elf
IsPtLoad(ph) == ph.p_type = "PT_LOAD"

RECURSIVE FoldMinVaddr(_, _)
\* .map(|ph| ph.p_vaddr).min() over the PT_LOAD headers: None when there is none.
FoldMinVaddr(phdrs, acc) ==
    IF phdrs = <<>> THEN acc
    ELSE LET ph == Head(phdrs)
             nxt == IF ~IsPtLoad(ph) THEN acc
                    ELSE IF acc = None THEN Some(ph.p_vaddr)
                    ELSE Some(min(acc[1], ph.p_vaddr))
         IN FoldMinVaddr(Tail(phdrs), nxt)

\* get_base_addr_of_elf on a parsed ELF: [value, warned].
GetBaseAddrOfElf(phdrs) ==
    LET m == FoldMinVaddr(phdrs, None)
    IN IF m = None THEN [value |-> as_u32(0), warned |-> TRUE]
       ELSE [value |-> as_u32(m[1]), warned |-> FALSE]

RECURSIVE FoldMinLma(_, _)
\* for phdr in &loadable_segments { min_lma = min(min_lma, phdr.p_paddr) }
FoldMinLma(segs, acc) ==
    IF segs = <<>> THEN acc
    ELSE FoldMinLma(Tail(segs), min(acc, Head(segs).p_paddr))

RECURSIVE FoldMaxLmaEnd(_, _)
\* max_lma_end = max(max_lma_end, phdr.p_paddr.saturating_add(phdr.p_filesz))
FoldMaxLmaEnd(segs, acc) ==
    IF segs = <<>> THEN acc
    ELSE FoldMaxLmaEnd(Tail(segs),
                       max(acc, saturating_add(Head(segs).p_paddr, Head(segs).p_filesz)))

\* Mutant: the source check catches the overflow and forgets the file length.
SourceRangeBad_OverflowOnly(ph, file_len) ==
    checked_add(ph.p_offset, ph.p_filesz) = None

\* The source-range check of one segment fails.
SourceRangeBad(ph, file_len) ==
    is_none_or_gt(checked_add(ph.p_offset, ph.p_filesz), file_len)

\* The destination-range check of one segment fails.
DestRangeBad(ph, lma, buf_len) ==
    is_none_or_gt(checked_add(ph.p_paddr - lma, ph.p_filesz), buf_len)

\* Mutant: the copy reads from the start of the file, not from p_offset.
CopyFromSlice_NoFileOffset(buf, boff, data, foff, size) ==
    [j \in 1..Len(buf) |->
        IF j - 1 >= boff /\ j - 1 < boff + size
        THEN data[(j - 1 - boff) + 1]
        ELSE buf[j]]

\* output_buffer[buffer_offset..buffer_offset + read_size]
\*     .copy_from_slice(&elf_data[file_offset..file_offset + read_size])
CopyFromSlice(buf, boff, data, foff, size) ==
    [j \in 1..Len(buf) |->
        IF j - 1 >= boff /\ j - 1 < boff + size
        THEN data[foff + (j - 1 - boff) + 1]
        ELSE buf[j]]

\* vec![0u8; n]
Zeros(n) == [j \in 1..n |-> 0]

\* ------------------------------------------------------- the UF2 encoder
\* uf2::bin_to_uf2 is an external crate; its blocks are laid out as the UF2
\* format has them: one block per ChunkSize bytes of image, every field 32
\* bits wide.  Two things the format leaves to the encoder are left open
\* here: whether payload_size is the chunk's byte count before padding or the
\* full ChunkSize (`full_payload`), and what becomes of a target address that
\* does not fit 32 bits (AddrOverflows, settled in Elf2Uf2Encode).
NumBlocks(image) == (Len(image) + ChunkSize - 1) \div ChunkSize

\* The last block's address base + (n - 1) * ChunkSize is past the u32 range.
AddrOverflows(image, base) == base + (NumBlocks(image) - 1) * ChunkSize > U32Max

Uf2Block(image, family_id, base, i, full_payload) ==
    LET n == NumBlocks(image)
        start == i * ChunkSize
        size == min(ChunkSize, Len(image) - start)
    IN [target_addr |-> as_u32(base + i * ChunkSize),
        payload_size |-> IF full_payload THEN ChunkSize ELSE size,
        block_no |-> i,
        num_blocks |-> n,
        family_id |-> family_id,
        data |-> [j \in 1..ChunkSize |-> IF j <= size THEN image[start + j] ELSE 0]]

BinToUf2(image, family_id, base, full_payload) ==
    [b \in 1..NumBlocks(image) |-> Uf2Block(image, family_id, base, b - 1, full_payload)]

\* ------------------------------------------------------------ deploying
\* uf2_path.file_name(): the artifact is <stem>.uf2 beside the ELF.
Uf2FileName == "fw.uf2"

\* disk.mount_point() of the k-th enumerated disk.  A mount point is any
\* byte string: the second one is not valid UTF-8.
MountPoint(k) == <<"/media/a", "/media/<FF>", "/media/c", "/media/d">>[k]

\* Path::to_str(): Some for a path that is valid UTF-8.
ToStr(path) == IF path[1] = "/media/<FF>" THEN None ELSE Some(path)

RECURSIVE FindBootloaderDisk(_, _)
\* for disk in disks { if path.join("INFO_UF2.TXT").exists() { ...; break } }
\* A disk list is a sequence of flags: disks[k] says whether disk k holds
\* INFO_UF2.TXT at its root.  The result is Some(mount point) or None.
FindBootloaderDisk(disks, k) ==
    IF k > Len(disks) THEN None
    ELSE IF disks[k] THEN Some(MountPoint(k))
    ELSE FindBootloaderDisk(disks, k + 1)

\* get_uf2_deploy_path: Some(path) or None (the bail!).  `disks` is the
\* enumeration the "auto" branch reads; the other branch does not read it.
GetUf2DeployPath(deploy_path, disks) ==
    LET deploy_dir == IF deploy_path = "auto" THEN FindBootloaderDisk(disks, 1)
                      ELSE Some(deploy_path)
    IN IF deploy_dir = None THEN None
       ELSE Some(<<deploy_dir[1], Uf2FileName>>)

\* fs_extra::file::copy_with_progress with CopyOptions::new() (overwrite and
\* skip_exist both false): a missing source, an existing destination, a
\* destination that cannot be created and a failed write are errors.  The
\* AlreadyExists error is raised only inside `if let Some(msg) = to.to_str()`:
\* an existing destination whose path is not UTF-8 falls through to
\* File::create and is overwritten.  `io` is what the device does: "ok",
\* "create_failed" or "write_failed".
CopyWithProgress(src_exists, dst_exists, dst_to_str, dst_dir_exists, io) ==
    IF ~src_exists THEN [ok |-> FALSE, created |-> FALSE]
    ELSE IF dst_exists /\ dst_to_str # None THEN [ok |-> FALSE, created |-> FALSE]
    ELSE IF ~dst_dir_exists \/ io = "create_failed" THEN [ok |-> FALSE, created |-> FALSE]
    ELSE IF io = "write_failed" THEN [ok |-> FALSE, created |-> TRUE]
    ELSE [ok |-> TRUE, created |-> TRUE]

\* ---------------------------------------------------------------- state
VARIABLES
    elf,                \* the file at elf_path: [path, kind, data, phdrs]
    args,               \* the command line: [family, base_addr, path, deploy_retry_count]
    fs,                 \* the destination file system: [dirs, files]
    pc,                 \* where the run is
    err,                \* the error that ended the run ("" while there is none)
    base_addr,          \* elf2uf2's base_addr, None until resolved
    warned,             \* get_base_addr_of_elf printed its warning
    loadable_segments,  \* elf2bin's selected program headers
    min_lma,
    max_lma_end,
    output_buffer,
    seg_idx,            \* segments elf2bin's copy loop has finished
    bin_file,           \* <stem>.bin: None or Some(bytes)
    uf2_data,           \* elf2uf2's encoded blocks, None until encoded
    uf2_file,           \* <stem>.uf2: None or Some([blocks, torn])
    trace,              \* the stages run so far, in order
    i,                  \* deploy_uf2's loop index
    sleeps,             \* 500 ms pauses taken
    scans,              \* volume enumerations made
    disks,              \* the enumeration the current attempt resolved from
    deploy_path,        \* the current attempt's resolved destination
    log,                \* the outcome of every finished attempt
    attempts,           \* attempts begun
    seen_bootloader,    \* some enumeration held a disk with INFO_UF2.TXT
    faulted,            \* some copy met a device fault
    disturbed           \* the destination was changed from outside during a pause

conv_vars == <<base_addr, warned, loadable_segments, min_lma, max_lma_end,
               output_buffer, seg_idx, bin_file, uf2_data, uf2_file>>
deploy_vars == <<fs, i, sleeps, scans, disks, deploy_path, log, attempts,
                 seen_bootloader, faulted, disturbed>>
vars == <<elf, args, pc, err, trace, conv_vars, deploy_vars>>

Terminated == pc \in {"exit_ok", "exit_err", "panic", "abort"}

\* An Err propagated by `?` up to main; a panic; the process aborted by
\* alloc::alloc::handle_alloc_error.
Fail(kind) == pc' = "exit_err" /\ err' = kind
Panic(kind) == pc' = "panic" /\ err' = kind
Abort(kind) == pc' = "abort" /\ err' = kind

\* A .uf2 file on disk: the whole blocks it holds, and whether a cut-off piece
\* of one more block follows them.
Uf2File(blocks, torn) == [blocks |-> blocks, torn |-> torn]

\* ---------------------------------------------------- uf2::elf2uf2
\* let base_addr = if let Some(base_addr) = base_addr { base_addr }
\*                 else { get_base_addr_of_elf(elf_path)? };
\* let artifact_dir = elf_path.parent().context(..)?;
\* let artifact_name = elf_path.file_stem().context(..)?.to_string_lossy();
\* get_base_addr_of_elf returns the error of a failed read, and unwraps
\* Elf::parse with expect(): a parse error panics.  With the base address in
\* hand, a path without a parent or without a file stem ends the conversion
\* before elf2bin is called.
ResolveBaseAddr ==
    /\ pc = "elf2uf2"
    /\ trace' = Append(trace, "base_addr")
    /\ IF args.base_addr = None /\ ~ReadToEnd(elf)
       THEN Fail("IoError") /\ UNCHANGED <<base_addr, warned>>
       ELSE IF args.base_addr = None /\ ~ElfParse(elf)
       THEN Panic("Failed to parse ELF") /\ UNCHANGED <<base_addr, warned>>
       ELSE /\ IF args.base_addr # None
               THEN base_addr' = args.base_addr /\ UNCHANGED warned
               ELSE /\ base_addr' = Some(GetBaseAddrOfElf(elf.phdrs).value)
                    /\ warned' = GetBaseAddrOfElf(elf.phdrs).warned
            /\ IF Parent(elf.path) = None
               THEN Fail("NoParentDir")
               ELSE IF FileStem(elf.path) = None
               THEN Fail("NoFileStem")
               ELSE pc' = "elf2bin" /\ UNCHANGED err
    /\ UNCHANGED <<elf, args, loadable_segments, min_lma, max_lma_end, output_buffer,
                   seg_idx, bin_file, uf2_data, uf2_file, deploy_vars>>

\* Mutant: the empty selection is not rejected.
Elf2BinParse_NoEmptyCheck ==
    /\ pc = "elf2bin"
    /\ trace' = Append(trace, "parse")
    /\ IF ~ReadToEnd(elf)
       THEN Fail("IoError") /\ UNCHANGED loadable_segments
       ELSE IF ObjectParse(elf) # "Elf"
       THEN Fail("FormatError") /\ UNCHANGED loadable_segments
       ELSE /\ loadable_segments' = LoadableSegments(elf.phdrs)
            /\ pc' = "layout"
            /\ UNCHANGED err
    /\ UNCHANGED <<elf, args, base_addr, warned, min_lma, max_lma_end, output_buffer,
                   seg_idx, bin_file, uf2_data, uf2_file, deploy_vars>>

\* elf2bin: read and parse the file, select the segments.
Elf2BinParse ==
    /\ pc = "elf2bin"
    /\ trace' = Append(trace, "parse")
    /\ IF ~ReadToEnd(elf)
       THEN Fail("IoError") /\ UNCHANGED loadable_segments
       ELSE IF ObjectParse(elf) # "Elf"
       THEN Fail("FormatError") /\ UNCHANGED loadable_segments
       ELSE IF LoadableSegments(elf.phdrs) = <<>>
       THEN Fail("NoLoadableSegments") /\ UNCHANGED loadable_segments
       ELSE /\ loadable_segments' = LoadableSegments(elf.phdrs)
            /\ pc' = "layout"
            /\ UNCHANGED err
    /\ UNCHANGED <<elf, args, base_addr, warned, min_lma, max_lma_end, output_buffer,
                   seg_idx, bin_file, uf2_data, uf2_file, deploy_vars>>

\* elf2bin: the LMA range, the output size and the zeroed buffer.  vec! ends
\* the run before any range check when it cannot make the buffer: a size over
\* isize::MAX panics (capacity overflow), and a size the host's allocator does
\* not serve aborts the process (handle_alloc_error).  Which sizes the
\* allocator serves is the host's matter: `alloc_ok` is its answer.
Elf2BinLayout ==
    /\ pc = "layout"
    /\ trace' = Append(trace, "layout")
    /\ min_lma' = FoldMinLma(loadable_segments, U64Max)
    /\ max_lma_end' = FoldMaxLmaEnd(loadable_segments, 0)
    /\ \E alloc_ok \in BOOLEAN :
         IF min_lma' = U64Max
         THEN Fail("NoValidLmaRange") /\ UNCHANGED <<output_buffer, seg_idx>>
         ELSE IF ~(max_lma_end' > min_lma')
         THEN Fail("EmptyImage") /\ UNCHANGED <<output_buffer, seg_idx>>
         ELSE IF max_lma_end' - min_lma' > IsizeMax
         THEN Panic("capacity overflow") /\ UNCHANGED <<output_buffer, seg_idx>>
         ELSE IF ~alloc_ok
         THEN Abort("memory allocation failed") /\ UNCHANGED <<output_buffer, seg_idx>>
         ELSE /\ output_buffer' = Zeros(max_lma_end' - min_lma')
              /\ seg_idx' = 0
              /\ pc' = "copy"
              /\ UNCHANGED err
    /\ UNCHANGED <<elf, args, base_addr, warned, loadable_segments, bin_file,
                   uf2_data, uf2_file, deploy_vars>>

\* elf2bin: one iteration of the copy loop: both range checks, then the copy.
\* Slicing past the end of either buffer panics.
Elf2BinCopySegment ==
    /\ pc = "copy"
    /\ seg_idx < Len(loadable_segments)
    /\ trace' = Append(trace, "copy_segment")
    /\ LET phdr == loadable_segments[seg_idx + 1]
           read_size == phdr.p_filesz
           file_offset == phdr.p_offset
           buffer_offset == phdr.p_paddr - min_lma
       IN IF SourceRangeBad(phdr, Len(elf.data))
          THEN Fail("SegmentRangeError") /\ UNCHANGED <<output_buffer, seg_idx>>
          ELSE IF DestRangeBad(phdr, min_lma, Len(output_buffer))
          THEN Fail("SegmentRangeError") /\ UNCHANGED <<output_buffer, seg_idx>>
          ELSE IF file_offset + read_size > Len(elf.data)
                  \/ buffer_offset + read_size > Len(output_buffer)
          THEN Panic("range end index out of range") /\ UNCHANGED <<output_buffer, seg_idx>>
          ELSE /\ output_buffer' = CopyFromSlice(output_buffer, buffer_offset,
                                                 elf.data, file_offset, read_size)
               /\ seg_idx' = seg_idx + 1
               /\ UNCHANGED <<pc, err>>
    /\ UNCHANGED <<elf, args, base_addr, warned, loadable_segments, min_lma,
                   max_lma_end, bin_file, uf2_data, uf2_file, deploy_vars>>

\* Mutant: the image is written before the copy loop has finished.
Elf2BinWrite_Early ==
    /\ pc = "copy"
    /\ trace' = Append(trace, "write_bin")
    /\ bin_file' = Some(output_buffer)
    /\ pc' = "bin2uf2"
    /\ UNCHANGED <<elf, args, err, base_addr, warned, loadable_segments, min_lma,
                   max_lma_end, output_buffer, seg_idx, uf2_data, uf2_file, deploy_vars>>

\* elf2bin: File::create(bin_path) and write_all(&output_buffer).  A failed
\* create leaves no file; a failed write leaves the created file with the
\* bytes written before the failure, a proper prefix of the image.
Elf2BinWrite ==
    /\ pc = "copy"
    /\ seg_idx = Len(loadable_segments)
    /\ trace' = Append(trace, "write_bin")
    /\ \E io \in {"ok", "create_failed", "write_failed"} :
         CASE io = "ok" ->
                /\ bin_file' = Some(output_buffer)
                /\ pc' = "bin2uf2"
                /\ UNCHANGED err
           [] io = "create_failed" ->
                Fail("IoError") /\ UNCHANGED bin_file
           [] OTHER ->
                \E written \in 0..(Len(output_buffer) - 1) :
                    Fail("IoError") /\ bin_file' = Some(SubSeq(output_buffer, 1, written))
    /\ UNCHANGED <<elf, args, base_addr, warned, loadable_segments, min_lma,
                   max_lma_end, output_buffer, seg_idx, uf2_data, uf2_file, deploy_vars>>

\* uf2::bin_to_uf2(&std::fs::read(bin_path)?, family_id, base_addr)?
\* Both `?` are exits: the read of the .bin, and the encoder's own Err.  An
\* image that reaches past the 32-bit address range from base_addr makes the
\* encoder wrap the address, return Err or panic on the addition: the crate
\* decides, so `overflow` is open.
Elf2Uf2Encode ==
    /\ pc = "bin2uf2"
    /\ trace' = Append(trace, "encode")
    /\ \E read_ok \in BOOLEAN, full_payload \in BOOLEAN,
          overflow \in {"wrap", "err", "panic"} :
         IF ~read_ok \/ bin_file = None
         THEN Fail("IoError") /\ UNCHANGED uf2_data
         ELSE IF AddrOverflows(bin_file[1], base_addr[1]) /\ overflow = "err"
         THEN Fail("EncodeError") /\ UNCHANGED uf2_data
         ELSE IF AddrOverflows(bin_file[1], base_addr[1]) /\ overflow = "panic"
         THEN Panic("attempt to add with overflow") /\ UNCHANGED uf2_data
         ELSE /\ uf2_data' = Some(BinToUf2(bin_file[1], args.family, base_addr[1],
                                           full_payload))
              /\ pc' = "write_uf2"
              /\ UNCHANGED err
    /\ UNCHANGED <<elf, args, base_addr, warned, loadable_segments, min_lma,
                   max_lma_end, output_buffer, seg_idx, bin_file, uf2_file, deploy_vars>>

\* std::fs::write(&uf2_path, uf2_data).context("Failed to write uf2 file")?
\* std::fs::write is File::create and write_all: a failed create leaves no
\* file; a failed write leaves the file with the bytes written before the
\* failure, some whole blocks and possibly a piece of the next one.
Elf2Uf2Write ==
    /\ pc = "write_uf2"
    /\ trace' = Append(trace, "write_uf2")
    /\ \E io \in {"ok", "create_failed", "write_failed"} :
         CASE io = "ok" ->
                /\ uf2_file' = Some(Uf2File(uf2_data[1], FALSE))
                /\ pc' = "elf2uf2_done"
                /\ UNCHANGED err
           [] io = "create_failed" ->
                Fail("IoError") /\ UNCHANGED uf2_file
           [] OTHER ->
                \E whole \in 0..(Len(uf2_data[1]) - 1), torn \in BOOLEAN :
                    /\ Fail("IoError")
                    /\ uf2_file' = Some(Uf2File(SubSeq(uf2_data[1], 1, whole), torn))
    /\ UNCHANGED <<elf, args, base_addr, warned, loadable_segments, min_lma,
                   max_lma_end, output_buffer, seg_idx, bin_file, uf2_data, deploy_vars>>

\* main: if let Some(deploy_path) = path { deploy_uf2(..)? } else { skip }
MainDeployOrSkip ==
    /\ pc = "elf2uf2_done"
    /\ IF args.path # None
       THEN pc' = "deploy_uf2" /\ trace' = Append(trace, "deploy")
       ELSE pc' = "exit_ok" /\ UNCHANGED trace
    /\ UNCHANGED <<elf, args, err, conv_vars, deploy_vars>>

\* ------------------------------------------------- deploy::deploy_uf2
\* Mutant: the pause is taken before the first attempt too.
DeployNextAttempt_SleepAlways ==
    /\ pc = "deploy_uf2"
    /\ i < args.deploy_retry_count
    /\ sleeps' = sleeps + 1
    /\ attempts' = attempts + 1
    /\ pc' = "resolve"
    /\ UNCHANGED <<elf, args, err, trace, conv_vars, fs, i, scans, disks,
                   deploy_path, log, seen_bootloader, faulted, disturbed>>

\* for i in 0..deploy_retry_count { if i > 0 { sleep(500 ms) } ...
DeployNextAttempt ==
    /\ pc = "deploy_uf2"
    /\ i < args.deploy_retry_count
    /\ sleeps' = IF i > 0 THEN sleeps + 1 ELSE sleeps
    /\ attempts' = attempts + 1
    /\ pc' = "resolve"
    /\ UNCHANGED <<elf, args, err, trace, conv_vars, fs, i, scans, disks,
                   deploy_path, log, seen_bootloader, faulted, disturbed>>

\* let Ok(deploy_path) = get_uf2_deploy_path(..) else { continue };
\* Only the "auto" branch enumerates the disks (a fresh list every call).
DeployResolve ==
    /\ pc = "resolve"
    /\ \E ds \in IF args.path[1] = "auto"
                 THEN UNION {[1..n -> BOOLEAN] : n \in 0..MaxDisks}
                 ELSE {<<>>} :
         /\ scans' = IF args.path[1] = "auto" THEN scans + 1 ELSE scans
         /\ seen_bootloader' = (seen_bootloader \/ \E k \in 1..Len(ds) : ds[k])
         /\ IF GetUf2DeployPath(args.path[1], ds) = None
            THEN /\ log' = Append(log, "resolve_failed")
                 /\ i' = i + 1
                 /\ pc' = "deploy_uf2"
                 /\ UNCHANGED <<disks, deploy_path>>
            ELSE /\ disks' = ds
                 /\ deploy_path' = GetUf2DeployPath(args.path[1], ds)
                 /\ pc' = "copy_uf2"
                 /\ UNCHANGED <<log, i>>
    /\ UNCHANGED <<elf, args, err, trace, conv_vars, fs, sleeps, attempts, faulted,
                   disturbed>>

\* The directory of a destination exists: a directory of the file system, or
\* the mount point of a disk just enumerated.
DirExists(dir) == dir \in fs.dirs \/ \E k \in 1..Len(disks) : dir = MountPoint(k)

\* Mutant: a failed copy is propagated instead of retried.
DeployCopy_AbortOnError ==
    /\ pc = "copy_uf2"
    /\ \E io \in {"ok", "create_failed", "write_failed"} :
         LET dst == deploy_path[1]
             r == CopyWithProgress(uf2_file # None, dst \in fs.files, ToStr(dst),
                                   DirExists(dst[1]), io)
         IN /\ fs' = IF r.created THEN [fs EXCEPT !.files = @ \cup {dst}] ELSE fs
            /\ faulted' = (faulted \/ io # "ok")
            /\ IF r.ok
               THEN /\ log' = Append(log, "copied")
                    /\ pc' = "exit_ok"
                    /\ UNCHANGED <<i, deploy_path, disks, err>>
               ELSE /\ log' = Append(log, "copy_failed")
                    /\ Fail("DeployFailed")
                    /\ UNCHANGED <<i, deploy_path, disks>>
    /\ UNCHANGED <<elf, args, trace, conv_vars, sleeps, scans, attempts,
                   seen_bootloader, disturbed>>

\* match copy_with_progress(..) { Ok(_) => break 'abandoned deploy_path, Err(_) => {} }
\* A copy that fails after creating the destination leaves the file behind;
\* an overwritten destination stays where it was.
DeployCopy ==
    /\ pc = "copy_uf2"
    /\ \E io \in {"ok", "create_failed", "write_failed"} :
         LET dst == deploy_path[1]
             r == CopyWithProgress(uf2_file # None, dst \in fs.files, ToStr(dst),
                                   DirExists(dst[1]), io)
         IN /\ fs' = IF r.created THEN [fs EXCEPT !.files = @ \cup {dst}] ELSE fs
            /\ faulted' = (faulted \/ io # "ok")
            /\ IF r.ok
               THEN /\ log' = Append(log, "copied")
                    /\ pc' = "exit_ok"
                    /\ UNCHANGED <<i, deploy_path, disks>>
               ELSE /\ log' = Append(log, "copy_failed")
                    /\ i' = i + 1
                    /\ pc' = "deploy_uf2"
                    /\ deploy_path' = None
                    /\ disks' = <<>>
    /\ UNCHANGED <<elf, args, err, trace, conv_vars, sleeps, scans, attempts,
                   seen_bootloader, disturbed>>

\* The loop ran out: bail!("Failed to copy the uf2 file to the deploy directory")
DeployAbandon ==
    /\ pc = "deploy_uf2"
    /\ i >= args.deploy_retry_count
    /\ Fail("DeployFailed")
    /\ UNCHANGED <<elf, args, trace, conv_vars, deploy_vars>>

\* ------------------------------------------------------------- inputs
SeqsUpTo(S, n) == UNION {[1..k -> S] : k \in 0..n}

\* A file of n bytes; the byte at offset o is o + 1.
FileBytes(n) == [j \in 1..n |-> j]

ElfFiles(headers, lens) ==
    {[path |-> ElfPath, kind |-> "elf", data |-> FileBytes(n), phdrs |-> p] :
        n \in lens, p \in SeqsUpTo(headers, MaxSegs)}

NonElfFiles ==
    {[path |-> ElfPath, kind |-> k, data |-> FileBytes(MaxFileLen), phdrs |-> <<>>] :
        k \in {"other_object", "malformed"}}

\* A path that opens but cannot be read: a directory, the root among them.
UnreadableFiles ==
    {[path |-> d, kind |-> "unreadable", data |-> <<>>, phdrs |-> <<>>] :
        d \in {WorkDir, RootDir}}

\* The headers of the extraction runs: every mix of offsets, sizes and load
\* addresses that the layout and both range checks tell apart.
ExtractHeaders ==
    {ProgramHeader("PT_LOAD", off, sz, pa, 0) :
        off \in {0, 1, U64Max}, sz \in {0, 1, 2}, pa \in {0, 1, 2, U64Max - 1, U64Max}}
    \cup {ProgramHeader("PT_NOTE", 0, 1, 0, 0)}

\* The headers of the whole-program runs: a good segment, an empty one, one
\* that reaches past the file, and one that is not PT_LOAD.
PipelineHeaders ==
    {ProgramHeader("PT_LOAD", 0, 2, 1, va) : va \in {2, U32Max + 1, U64Max}}
    \cup {ProgramHeader("PT_LOAD", 2, 1, 3, U32Max + 3),
          ProgramHeader("PT_LOAD", 1, 0, 0, 1),
          ProgramHeader("PT_LOAD", MaxFileLen, 1, 2, 2),
          ProgramHeader("PT_NOTE", 0, 1, 0, 0)}

ExplicitDir == "/mnt/d"

\* The destination directory may be missing, empty, or hold the file already.
FsStates ==
    {[dirs |-> {}, files |-> {}],
     [dirs |-> {ExplicitDir}, files |-> {}],
     [dirs |-> {ExplicitDir}, files |-> {<<ExplicitDir, Uf2FileName>>}]}

\* What the destination can be made into from outside: with an explicit
\* directory any of FsStates, with "auto" any set of files left on the volumes.
DestinationStates(deploy_path_args) ==
    IF deploy_path_args = "auto"
    THEN {[dirs |-> {}, files |-> F] :
             F \in SUBSET {<<MountPoint(k), Uf2FileName>> : k \in 1..MaxDisks}}
    ELSE FsStates

\* if i > 0 { std::thread::sleep(500 ms) }: while deploy_uf2 sleeps the
\* destination is in other hands (the device rebooting, another process): a
\* directory appears or goes, a file on it is removed or left.  Every attempt
\* looks at the file system anew.
DestinationChanges ==
    /\ pc = "deploy_uf2"
    /\ 0 < i /\ i < args.deploy_retry_count
    /\ fs' \in DestinationStates(args.path[1]) \ {fs}
    /\ disturbed' = TRUE
    /\ UNCHANGED <<elf, args, pc, err, trace, conv_vars, i, sleeps, scans, disks,
                   deploy_path, log, attempts, seen_bootloader, faulted>>

InitLocals ==
    /\ err = ""
    /\ base_addr = None
    /\ warned = FALSE
    /\ loadable_segments = <<>>
    /\ min_lma = U64Max
    /\ max_lma_end = 0
    /\ output_buffer = <<>>
    /\ seg_idx = 0
    /\ bin_file = None
    /\ uf2_data = None
    /\ i = 0
    /\ sleeps = 0
    /\ scans = 0
    /\ disks = <<>>
    /\ deploy_path = None
    /\ log = <<>>
    /\ attempts = 0
    /\ seen_bootloader = FALSE
    /\ faulted = FALSE
    /\ disturbed = FALSE

\* main() at the call of elf2uf2.
Init ==
    /\ elf \in ElfFiles(PipelineHeaders, {MaxFileLen}) \cup NonElfFiles \cup UnreadableFiles
    /\ \E b \in {None, Some(2)}, p \in {None, Some("auto"), Some(ExplicitDir)},
          n \in {0, 1, 2} :
          /\ p = None => n = 0
          /\ args = [family |-> 1, base_addr |-> b, path |-> p, deploy_retry_count |-> n]
    /\ fs \in IF args.path = Some(ExplicitDir) THEN FsStates
               ELSE {[dirs |-> {}, files |-> {}]}
    /\ pc = "elf2uf2"
    /\ uf2_file = None
    /\ trace = <<>>
    /\ InitLocals

NextConvert ==
    \/ ResolveBaseAddr
    \/ Elf2BinParse
    \/ Elf2BinLayout
    \/ Elf2BinCopySegment
    \/ Elf2BinWrite
    \/ Elf2Uf2Encode
    \/ Elf2Uf2Write
    \/ MainDeployOrSkip

NextDeploy ==
    \/ DeployNextAttempt
    \/ DeployResolve
    \/ DeployCopy
    \/ DeployAbandon
    \/ DestinationChanges

Next == NextConvert \/ NextDeploy

Spec == Init /\ [][Next]_vars

\* elf2uf2 alone, over the larger set of ELF files.
InitExtract ==
    /\ elf \in ElfFiles(ExtractHeaders, {MaxFileLen - 1, MaxFileLen})
    /\ args = [family |-> 1, base_addr |-> None, path |-> None, deploy_retry_count |-> 0]
    /\ fs = [dirs |-> {}, files |-> {}]
    /\ pc = "elf2uf2"
    /\ uf2_file = None
    /\ trace = <<>>
    /\ InitLocals

SpecExtract == InitExtract /\ [][NextConvert]_vars

\* deploy_uf2 alone: any specifier, retry count, destination and source.
InitDeploy ==
    /\ elf = [path |-> ElfPath, kind |-> "elf", data |-> <<>>, phdrs |-> <<>>]
    /\ \E p \in {"auto", ExplicitDir}, n \in 0..MaxRetry :
          args = [family |-> 1, base_addr |-> None, path |-> Some(p),
                  deploy_retry_count |-> n]
    /\ fs \in IF args.path = Some(ExplicitDir) THEN FsStates
               ELSE {[dirs |-> {}, files |-> {}]}
    /\ pc = "deploy_uf2"
    /\ uf2_file \in {None, Some(Uf2File(<<>>, FALSE))}
    /\ trace = <<"deploy">>
    /\ InitLocals

SpecDeploy == InitDeploy /\ [][NextDeploy]_vars

\* ---------------------------------------------------------- properties
SetMin(S) == CHOOSE x \in S : \A y \in S : x <= y
SetMax(S) == CHOOSE x \in S : \A y \in S : x >= y

RetryCount == args.deploy_retry_count
IsAuto == args.path = Some("auto")
IsExplicit == args.path # None /\ ~IsAuto

\* C1: with "auto" and no enumeration ever holding an INFO_UF2.TXT volume,
\* deploy_uf2 makes exactly N attempts (never more, each one resolve only),
\* pauses before every attempt but the first (N - 1 pauses, none when N <= 1),
\* then fails with DeployFailed, and never reports success.
C1_NoVolumeExhaustsRetries ==
    (IsAuto /\ ~seen_bootloader) =>
        /\ attempts <= RetryCount
        /\ pc # "exit_ok"
        /\ sleeps = (IF attempts <= 1 THEN 0 ELSE attempts - 1)
        /\ scans = Len(log)
        /\ \A k \in 1..Len(log) : log[k] = "resolve_failed"
        /\ Terminated =>
              /\ pc = "exit_err" /\ err = "DeployFailed"
              /\ attempts = RetryCount
              /\ scans = RetryCount
              /\ sleeps = (IF RetryCount <= 1 THEN 0 ELSE RetryCount - 1)

C1_Witness ==
    /\ IsAuto /\ ~seen_bootloader /\ RetryCount = 3
    /\ pc = "exit_err" /\ err = "DeployFailed"
    /\ attempts = 3 /\ sleeps = 2

\* C2: success is reached exactly at the first attempt whose copy completes,
\* and no attempt follows it; a failed resolve or copy is followed by the next
\* attempt while attempts remain; deploy_uf2 fails only when all N attempts
\* ended without a successful copy.
C2_FirstGoodCopyEndsTheLoop ==
    /\ attempts <= RetryCount
    /\ \A k \in 1..Len(log) :
          log[k] = "copied" => (k = Len(log) /\ pc = "exit_ok" /\ attempts = k)
    /\ pc = "exit_ok" => (log # <<>> /\ log[Len(log)] = "copied")
    /\ pc = "exit_err" =>
          /\ err = "DeployFailed"
          /\ Len(log) = RetryCount /\ attempts = RetryCount
          /\ \A k \in 1..Len(log) : log[k] # "copied"
    /\ (pc = "deploy_uf2" /\ Len(log) < RetryCount) => ENABLED DeployNextAttempt
    /\ pc = "resolve" => ENABLED DeployResolve
    /\ pc = "copy_uf2" => ENABLED DeployCopy

C2_Witness ==
    /\ pc = "exit_ok"
    /\ log = <<"resolve_failed", "copy_failed", "copied">>

\* C3 (as claimed): every attempt resolves anew; "auto" takes the first
\* enumerated disk holding INFO_UF2.TXT and fails the attempt when there is
\* none; any other specifier scans nothing and resolves to
\* <specifier>/<file name>; and a deploy to an explicit directory that exists
\* (source present, no device fault, nobody else touching the destination, at
\* least one attempt allowed) succeeds on the first attempt, without a scan
\* and without a pause.
C3_ExplicitPathSucceedsFirst ==
    /\ IsAuto => scans = attempts - (IF pc = "resolve" THEN 1 ELSE 0)
    /\ (IsAuto /\ pc = "copy_uf2") =>
          \E k \in 1..Len(disks) :
              /\ disks[k]
              /\ \A h \in 1..(k - 1) : ~disks[h]
              /\ deploy_path = Some(<<MountPoint(k), Uf2FileName>>)
    /\ IsExplicit => scans = 0
    /\ (IsExplicit /\ pc = "copy_uf2") =>
          deploy_path = Some(<<args.path[1], Uf2FileName>>)
    /\ (IsExplicit /\ args.path[1] \in fs.dirs /\ uf2_file # None /\ ~faulted
          /\ ~disturbed /\ RetryCount >= 1 /\ Terminated) =>
          (pc = "exit_ok" /\ attempts = 1 /\ sleeps = 0)

\* The headers elf2bin is to select: PT_LOAD with a non-zero file size.
Selected == {k \in 1..Len(elf.phdrs) :
                elf.phdrs[k].p_type = "PT_LOAD" /\ elf.phdrs[k].p_filesz # 0}

Ran(stage) == \E k \in 1..Len(trace) : trace[k] = stage
LastStage == trace[Len(trace)]

\* elf2bin returned Ok: it reached the write and the write did not fail.
Elf2BinSucceeded == Ran("write_bin") /\ ~(LastStage = "write_bin" /\ err # "")

ImageBase == SetMin({elf.phdrs[k].p_paddr : k \in Selected})
ImageEnd == SetMax({IF elf.phdrs[k].p_paddr + elf.phdrs[k].p_filesz > U64Max
                    THEN U64Max
                    ELSE elf.phdrs[k].p_paddr + elf.phdrs[k].p_filesz : k \in Selected})

\* C4: when elf2bin succeeds on an ELF with a selected header, the image it
\* wrote is max(p_paddr + p_filesz) - min(p_paddr) bytes long, both over
\* exactly the selected headers, the sum saturating at the 64-bit maximum.
C4_ImageLength ==
    Elf2BinSucceeded =>
        /\ Selected # {}
        /\ bin_file # None
        /\ Len(bin_file[1]) = ImageEnd - ImageBase

C4_Witness ==
    /\ elf.phdrs = <<ProgramHeader("PT_LOAD", 0, 2, 2, 0),
                     ProgramHeader("PT_LOAD", 1, 0, 0, 0)>>
    /\ pc = "exit_ok"
    /\ Len(bin_file[1]) = 2

\* Some selected header's source range leaves the file (or overflows).
HasBadSourceRange ==
    \E k \in Selected :
        elf.phdrs[k].p_offset + elf.phdrs[k].p_filesz > Len(elf.data)

\* Every segment the copy loop has finished lay inside the file and inside
\* the buffer, and was copied whole.
CopiesInRange ==
    \A n \in 1..seg_idx :
        LET ph == loadable_segments[n]
        IN /\ ph.p_offset + ph.p_filesz <= Len(elf.data)
           /\ ph.p_paddr >= min_lma
           /\ ph.p_paddr - min_lma + ph.p_filesz <= Len(output_buffer)
           /\ \A o \in 0..(ph.p_filesz - 1) :
                 \/ output_buffer[ph.p_paddr - min_lma + o + 1] = elf.data[ph.p_offset + o + 1]
                 \/ \E m \in (n + 1)..seg_idx :
                       LET later == loadable_segments[m]
                       IN ph.p_paddr + o >= later.p_paddr
                          /\ ph.p_paddr + o < later.p_paddr + later.p_filesz

\* C5 (as claimed): a selected segment whose source range leaves the file
\* makes extraction fail with SegmentRangeError, with no copy out of range,
\* no truncated copy and no .bin written.
C5_BadRangeIsSegmentRangeError ==
    HasBadSourceRange =>
        /\ bin_file = None
        /\ CopiesInRange
        /\ Terminated => (pc = "exit_err" /\ err = "SegmentRangeError")

\* C5 (amended): such a segment makes extraction fail and no .bin is
\* written, no copy is out of range or truncated; the failure is
\* SegmentRangeError once the copy loop is reached, and otherwise the layout
\* step's own failure, which comes first: no valid LMA range (every selected
\* p_paddr is the 64-bit maximum), or the allocation failing on an image too
\* large to allocate (a panic over isize::MAX bytes, an abort when the host
\* does not have the memory).
C5_BadRangeFails ==
    HasBadSourceRange =>
        /\ bin_file = None
        /\ CopiesInRange
        /\ ~Elf2BinSucceeded
        /\ Terminated =>
              \/ pc = "exit_err" /\ err = "SegmentRangeError"
              \/ /\ pc = "exit_err" /\ err = "NoValidLmaRange"
                 /\ \A k \in Selected : elf.phdrs[k].p_paddr = U64Max
              \/ /\ pc = "panic" /\ err = "capacity overflow"
                 /\ ImageEnd - ImageBase > IsizeMax
              \/ /\ pc = "abort" /\ err = "memory allocation failed"
                 /\ ImageEnd - ImageBase <= IsizeMax
        /\ (Terminated /\ err # "SegmentRangeError") => LastStage = "layout"

C5_Witness ==
    /\ elf.phdrs = <<ProgramHeader("PT_LOAD", 0, 1, 0, 0),
                     ProgramHeader("PT_LOAD", 1, 2, 1, 0)>>
    /\ Len(elf.data) = 2
    /\ seg_idx = 1
    /\ pc = "exit_err" /\ err = "SegmentRangeError"

\* The byte the image is to hold at offset o: that of the last selected
\* header, in header order, whose load range covers it; 0 when none does.
ExpectedByte(o) ==
    LET addr == ImageBase + o
        covering == {k \in Selected :
                        /\ elf.phdrs[k].p_paddr <= addr
                        /\ addr < elf.phdrs[k].p_paddr + elf.phdrs[k].p_filesz}
    IN IF covering = {} THEN 0
       ELSE LET k == SetMax(covering)
            IN elf.data[elf.phdrs[k].p_offset + (addr - elf.phdrs[k].p_paddr) + 1]

\* C9: after a successful extraction every image byte is the file byte of
\* the last selected segment (header order) covering it, and 0 where none
\* covers it; overlapping segments are accepted, the later one winning.
C9_ImageBytes ==
    Elf2BinSucceeded =>
        \A o \in 0..(Len(bin_file[1]) - 1) : bin_file[1][o + 1] = ExpectedByte(o)

\* Two overlapping segments out of address order, a gap-free three-byte image.
C9_Witness ==
    /\ elf.phdrs = <<ProgramHeader("PT_LOAD", 0, 2, 1, 0),
                     ProgramHeader("PT_LOAD", 1, 2, 0, 0)>>
    /\ pc = "exit_ok"
    /\ bin_file = Some(<<2, 3, 2>>)

\* A gap between two segments is zero-filled.
C9_GapWitness ==
    /\ pc = "exit_ok"
    /\ bin_file = Some(<<1, 0, 2>>)

\* C6 (as claimed): an input whose bytes are not a valid ELF (unparseable, or
\* another object format) makes the conversion return FormatError to its
\* caller, with or without a base-address override, never ending the process
\* another way, and writes no artifact.
C6_NonElfIsFormatError ==
    elf.kind \in {"other_object", "malformed"} =>
        /\ pc \notin {"panic", "abort"}
        /\ bin_file = None /\ uf2_file = None
        /\ Terminated => (pc = "exit_err" /\ err = "FormatError")

\* The base address an ELF gives: the least p_vaddr of its PT_LOAD headers,
\* cut to 32 bits; 0 when it has none.
PtLoads == {k \in 1..Len(elf.phdrs) : elf.phdrs[k].p_type = "PT_LOAD"}
DerivedBase ==
    IF PtLoads = {} THEN 0
    ELSE SetMin({elf.phdrs[k].p_vaddr : k \in PtLoads}) % (U32Max + 1)
ExpectedBase == IF args.base_addr # None THEN args.base_addr[1] ELSE DerivedBase

\* C7: an ELF with no PT_LOAD header, or whose PT_LOAD headers all have
\* p_filesz = 0, fails with NoLoadableSegments whether or not the base
\* address is overridden; deriving the base address does not fail (it warns
\* and gives 0 without a PT_LOAD header, the least p_vaddr otherwise); no
\* .bin or .uf2 is written and no deploy is attempted.
C7_NoLoadableSegments ==
    (elf.kind = "elf" /\ Selected = {}) =>
        /\ pc \notin {"panic", "abort"}
        /\ bin_file = None /\ uf2_file = None
        /\ ~Ran("deploy") /\ attempts = 0
        /\ Ran("base_addr") =>
              /\ base_addr = Some(ExpectedBase)
              /\ warned = (args.base_addr = None /\ PtLoads = {})
              /\ (LastStage = "base_addr" => err = "")
        /\ Terminated =>
              (pc = "exit_err" /\ err = "NoLoadableSegments" /\ LastStage = "parse")

\* PT_LOAD headers, all of file size 0, no override: the least p_vaddr, no warning.
C7_Witness ==
    /\ elf.phdrs = <<ProgramHeader("PT_NOTE", 0, 1, 0, 0),
                     ProgramHeader("PT_LOAD", 1, 0, 0, 1)>>
    /\ args.base_addr = None /\ args.path # None
    /\ pc = "exit_err" /\ err = "NoLoadableSegments"
    /\ base_addr = Some(1) /\ ~warned

\* No PT_LOAD header at all: the warning and base address 0.
C7_WarnWitness ==
    /\ elf.kind = "elf" /\ PtLoads = {} /\ args.base_addr = None
    /\ pc = "exit_err" /\ err = "NoLoadableSegments"
    /\ base_addr = Some(0) /\ warned

\* elf2uf2 returned Ok: it reached the .uf2 write and the write did not fail.
Elf2Uf2Succeeded == Ran("write_uf2") /\ ~(LastStage = "write_uf2" /\ err # "")

\* What elf2uf2 itself settles about the UF2 stream: the base address handed
\* to the encoder is the override when given and otherwise the least PT_LOAD
\* p_vaddr cut to 32 bits; the encoder gets the image as written to the .bin;
\* a conversion that succeeds leaves the encoder's stream, whole, in the
\* .uf2, and a write that fails leaves it in order as far as it got.
EncoderInputs ==
    /\ base_addr # None => base_addr = Some(ExpectedBase)
    /\ uf2_data # None =>
          /\ Elf2BinSucceeded /\ Len(bin_file[1]) > 0
          /\ \E full_payload \in BOOLEAN :
                uf2_data[1] = BinToUf2(bin_file[1], args.family, ExpectedBase, full_payload)
          /\ Elf2Uf2Succeeded => uf2_file = Some(Uf2File(uf2_data[1], FALSE))
          /\ uf2_file # None =>
                /\ Len(uf2_file[1].blocks) <= Len(uf2_data[1])
                /\ uf2_file[1].blocks = SubSeq(uf2_data[1], 1, Len(uf2_file[1].blocks))

\* The least p_vaddr does not fit 32 bits and is cut to 0.
EncoderInputsWitness ==
    /\ Elf2Uf2Succeeded /\ args.base_addr = None
    /\ elf.phdrs = <<ProgramHeader("PT_LOAD", 0, 2, 1, U32Max + 1),
                     ProgramHeader("PT_LOAD", 2, 1, 3, U32Max + 3)>>
    /\ base_addr = Some(0)
    /\ Len(uf2_file[1].blocks) = 2

\* The least p_vaddr is the 64-bit maximum: the base is the 32-bit maximum.
BaseAddrTopWitness ==
    /\ Elf2Uf2Succeeded /\ args.base_addr = None
    /\ elf.phdrs = <<ProgramHeader("PT_LOAD", 0, 2, 1, U64Max)>>
    /\ base_addr = Some(U32Max)

\* A .uf2 write that failed part-way: one whole block and a piece of the next.
TornUf2Witness ==
    /\ pc = "exit_err" /\ err = "IoError" /\ LastStage = "write_uf2"
    /\ uf2_file # None /\ uf2_file[1].torn /\ Len(uf2_file[1].blocks) = 1

\* An image of two blocks from base address 2 reaches past the 32-bit range:
\* the encoder wraps the second block's address, refuses, or panics.
AddrOverflowWitness ==
    /\ args.base_addr = Some(2) /\ bin_file # None /\ Len(bin_file[1]) > ChunkSize
    /\ \/ uf2_data # None /\ uf2_data[1][2].target_addr = as_u32(2 + ChunkSize)
       \/ pc = "exit_err" /\ err = "EncodeError"
       \/ pc = "panic" /\ LastStage = "encode"

StageOrder == <<"base_addr", "parse", "layout", "copy_segment", "write_bin",
                "encode", "write_uf2", "deploy">>
StageRank(stage) == CHOOSE r \in 1..Len(StageOrder) : StageOrder[r] = stage
CopiesRun == Cardinality({k \in 1..Len(trace) : trace[k] = "copy_segment"})

\* C10: the stages run in the order base address, extraction, .bin write,
\* encoding, .uf2 write, deploy; the .bin is written only after every
\* selected segment passed both checks and was copied; the .uf2 only after
\* the .bin; deploy only after the .uf2 and only with a deploy path; and a
\* failed stage is the last stage of the run.
C10_StageOrder ==
    /\ \A k \in 1..Len(trace) :
          IF k = 1 THEN trace[k] = "base_addr"
          ELSE \/ StageRank(trace[k]) = StageRank(trace[k - 1]) + 1
               \/ trace[k] = "copy_segment" /\ trace[k - 1] = "copy_segment"
    /\ Ran("write_bin") =>
          /\ CopiesRun = Cardinality(Selected)
          /\ seg_idx = Cardinality(Selected)
          /\ CopiesInRange
    /\ bin_file # None => Ran("write_bin")
    /\ uf2_file # None => (Elf2BinSucceeded /\ Ran("write_uf2") /\ bin_file # None)
    /\ Ran("deploy") =>
          (Elf2Uf2Succeeded /\ uf2_file = Some(Uf2File(uf2_data[1], FALSE))
             /\ args.path # None)
    /\ attempts > 0 => Ran("deploy")
    /\ err # "" => (Terminated /\ pc # "exit_ok")
    /\ Terminated => ~ENABLED Next
    /\ (pc = "exit_ok" /\ args.path = None) => (uf2_file # None /\ ~Ran("deploy"))

C10_Witness ==
    /\ pc = "exit_ok"
    /\ trace = <<"base_addr", "parse", "layout", "copy_segment", "copy_segment",
                 "write_bin", "encode", "write_uf2", "deploy">>
    /\ log = <<"copy_failed", "copied">>

\* A run stopped by a failed stage: extraction fails at the second segment.
C10_FailWitness ==
    /\ pc = "exit_err" /\ err = "SegmentRangeError"
    /\ trace = <<"base_addr", "parse", "layout", "copy_segment", "copy_segment">>
    /\ bin_file = None /\ uf2_file = None /\ args.path # None

\* A run stopped before extraction: the root directory as elf_path, with an
\* override, has no parent directory for the artifacts.
C10_NoParentWitness ==
    /\ pc = "exit_err" /\ err = "NoParentDir"
    /\ trace = <<"base_addr">> /\ base_addr = Some(2)
    /\ bin_file = None /\ uf2_file = None
====
